---- MODULE Spec2Model ----
(***************************************************************************)
(* The keyword search engine of cli/: the Tokenizer pipeline and the       *)
(* InvertedIndex (build, save, load, get_documents, search), with the two  *)
(* pickle files of cache/ as storage shared by a build process "w" and a   *)
(* search process "r".                                                     *)
(*                                                                         *)
(* Text is a sequence of one-character strings.  The alphabet is small:    *)
(* the letters a and s, the capital A, the punctuation character -  *)
(* and the blank.  Over the letters a and s the Porter stemmer of nltk     *)
(* (NLTK_EXTENSIONS mode) reduces to its length guard and to step 1a's     *)
(* rules SS -> SS and S -> (nothing): no other rule's suffix can be        *)
(* spelled.                                                                *)
(***************************************************************************)
EXTENDS Integers, Sequences, FiniteSets, TLC

\* ------------------------------------------------------------------ bounds

\* Longest query text the operations are called with.
MaxLen == 3
\* Number of build() calls in one behaviour.
MaxBuilds == 1

\* search() returns sorted_movies[:5].
MaxResults == 5

\* ------------------------------------------------------------------ text

Chars == {"a", "s", "A", "-", " "}

\* string.punctuation, cut to the alphabet.
Punctuation == {"-"}

\* The characters str.split() splits on, cut to the alphabet.
Whitespace == {" "}

\* str.lower() on one character.
Lower(c) == IF c = "A" THEN "a" ELSE c

\* normalize without the call of lower().
normalize_no_lower(text) == SelectSeq(text, LAMBDA c : c \notin Punctuation)

\* Tokenizer._normalize: lowercase, then delete every punctuation character.
normalize(text) ==
    SelectSeq([i \in DOMAIN text |-> Lower(text[i])],
              LAMBDA c : c \notin Punctuation)

\* str.split(): the maximal runs of non-whitespace characters, in order.
\* words: the words finished so far; cur: the word being read.
RECURSIVE SplitFrom(_, _, _, _)
SplitFrom(text, i, words, cur) ==
    IF i > Len(text)
    THEN IF cur = <<>> THEN words ELSE Append(words, cur)
    ELSE IF text[i] \in Whitespace
         THEN SplitFrom(text, i + 1,
                        IF cur = <<>> THEN words ELSE Append(words, cur), <<>>)
         ELSE SplitFrom(text, i + 1, words, Append(cur, text[i]))

\* Tokenizer._split_into_words
split_into_words(text) == SplitFrom(text, 1, <<>>, <<>>)

\* The stopword set the Tokenizer is constructed with (load_stopwords()).
Stopwords == {<<"a", "s">>, <<"a", "a">>}

\* remove_stopwords without the filter.
remove_stopwords_none(tokens, stopwords) == tokens

\* remove_stopwords: keep the tokens that are not in the stopword set.
remove_stopwords(tokens, stopwords) ==
    SelectSeq(tokens, LAMBDA t : t \notin stopwords)

\* PorterStemmer.stem on one word over the letters a, s: a word of at most
\* two characters is returned as it is; step 1a: SS -> SS, S -> "".
stem_word(word) ==
    IF Len(word) <= 2 THEN word
    ELSE IF word[Len(word)] = "s" /\ word[Len(word) - 1] # "s"
         THEN SubSeq(word, 1, Len(word) - 1)
         ELSE word

\* Tokenizer._stem
stem(tokens) == [i \in DOMAIN tokens |-> stem_word(tokens[i])]

\* Tokenizer.tokenize: normalize -> split -> remove stopwords -> stem.
tokenize(text) ==
    stem(remove_stopwords(split_into_words(normalize(text)), Stopwords))

\* The query texts the operations are called with: every text of at most
\* MaxLen characters.
RECURSIVE TextsUpTo(_)
TextsUpTo(n) ==
    IF n = 0 THEN {<<>>}
    ELSE LET shorter == TextsUpTo(n - 1)
         IN  shorter \cup {Append(t, c) : t \in shorter, c \in Chars}

Queries == TextsUpTo(MaxLen)

\* The sequences of terms the queries tokenize to.
QueryTerms == {tokenize(q) : q \in Queries}

\* One query for each of these sequences.  search and get_documents read
\* their argument through tokenize alone (query_tokens, tokens), so that two
\* queries with the same terms are one input to them.
SampleQueries ==
    {CHOOSE q \in Queries : tokenize(q) = terms : terms \in QueryTerms}

\* ---------------------------------------------------------------- corpus

\* A movie record: a dict; has is the set of its keys (the value of a key
\* that is not in has is never read).
Movie(i, t, d) ==
    [has |-> {"id", "title", "description"}, id |-> i, title |-> t,
     description |-> d]

M1 == Movie(1, <<"A">>, <<"s", "a", "s">>)
M2 == Movie(2, <<"s">>, <<"s", "a">>)
M3 == Movie(3, <<"a", "-">>, <<"a", "a", " ", "s", "s">>)
M4 == Movie(4, <<"A", " ", "s">>, <<"a", "s", "s">>)
M5 == Movie(5, <<"s", "a", " ", "s">>, <<>>)
M6 == Movie(6, <<"a">>, <<"s", "-", "s">>)
M7 == Movie(7, <<"A", "s", "s", " ", "a">>, <<"a", "s">>)
M8 == Movie(8, <<"a", "a", "s">>, <<"s", "s", " ", " ", "a">>)
\* A second record with the identifier of M1.
M1b == Movie(1, <<"s", "s">>, <<"s">>)
NoTitle == [has |-> {"id", "description"}, id |-> 9, title |-> <<>>,
            description |-> <<"s">>]
NoDesc == [has |-> {"id", "title"}, id |-> 9, title |-> <<"s">>,
           description |-> <<>>]
NoId == [has |-> {"title", "description"}, id |-> 0, title |-> <<"a">>,
         description |-> <<"s">>]

\* The corpora build() is called with (load_movies()): three movies; seven
\* movies and a second record for identifier 1; and one corpus for each
\* required key a record can lack.
Corpora ==
    { <<M1, M2, M3>>,
      <<M1, M2, M3, M4, M5, M6, M7, M1b>>,
      <<M8, NoTitle, M2>>,
      <<M8, NoDesc>>,
      <<NoId, M2>> }

\* ----------------------------------------------------------------- index

\* dict.get(token, set()) on the index.
Postings(idx, token) == IF token \in DOMAIN idx THEN idx[token] ELSE {}

\* InvertedIndex.__add_document, from the i-th token on.
RECURSIVE AddTokens(_, _, _, _)
AddTokens(idx, doc_id, tokens, i) ==
    IF i > Len(tokens) THEN idx
    ELSE LET token == tokens[i]
             withKey == IF token \in DOMAIN idx THEN idx
                        ELSE [t \in DOMAIN idx \cup {token} |->
                                 IF t = token THEN {} ELSE idx[t]]
         IN  AddTokens([withKey EXCEPT ![token] = @ \cup {doc_id}],
                       doc_id, tokens, i + 1)

\* __add_document indexing the words as split, without stemming them (the
\* tokenization of the first cli/inverted_index.py).
add_document_unstemmed(idx, doc_id, text) ==
    AddTokens(idx, doc_id, split_into_words(normalize(text)), 1)

add_document(idx, doc_id, text) == AddTokens(idx, doc_id, tokenize(text), 1)

\* docmap[doc_id] = m
PutDoc(dm, doc_id, m) ==
    [k \in DOMAIN dm \cup {doc_id} |-> IF k = doc_id THEN m ELSE dm[k]]

\* InvertedIndex.build, from the i-th record on: the state it leaves and
\* the exception that ended it, if any.
RECURSIVE BuildFrom(_, _, _, _)
BuildFrom(idx, dm, movies, i) ==
    IF i > Len(movies) THEN [index |-> idx, docmap |-> dm, err |-> "none"]
    ELSE LET m == movies[i] IN
         IF "id" \notin m.has
         THEN [index |-> idx, docmap |-> dm, err |-> "KeyError"]
         ELSE LET dm1 == PutDoc(dm, m.id, m) IN
              IF "title" \notin m.has \/ "description" \notin m.has
              THEN [index |-> idx, docmap |-> dm1, err |-> "KeyError"]
              ELSE BuildFrom(
                       add_document(idx, m.id, m.title \o <<" ">> \o m.description),
                       dm1, movies, i + 1)

\* The union of the posting sets of the tokens (search's loop over
\* query_tokens with matching_doc_ids.update).
RECURSIVE MatchingDocIds(_, _, _)
MatchingDocIds(idx, tokens, i) ==
    IF i > Len(tokens) THEN {}
    ELSE Postings(idx, tokens[i]) \cup MatchingDocIds(idx, tokens, i + 1)

\* sorted() of a set of integers: ascending.
RECURSIVE SortedIds(_)
SortedIds(S) ==
    IF S = {} THEN <<>>
    ELSE LET least == CHOOSE x \in S : \A y \in S : x <= y
         IN  <<least>> \o SortedIds(S \ {least})

\* sorted(matching_movies, key=lambda m: m["id"]): ascending by the id
\* field of the records.
RECURSIVE SortedMovies(_)
SortedMovies(movies) ==
    IF movies = {} THEN <<>>
    ELSE LET first == CHOOSE m \in movies : \A n \in movies : m.id <= n.id
         IN  <<first>> \o SortedMovies(movies \ {first})

\* xs[:n]
Take(xs, n) == SubSeq(xs, 1, IF Len(xs) < n THEN Len(xs) ELSE n)

\* InvertedIndex.search: the exception it raises, if any, and the list it
\* returns.
search(idx, dm, query) ==
    LET query_tokens == tokenize(query)
        matching_doc_ids == MatchingDocIds(idx, query_tokens, 1)
    IN  IF query_tokens = <<>> THEN [err |-> "none", value |-> <<>>]
        ELSE IF \E doc_id \in matching_doc_ids : doc_id \notin DOMAIN dm
        THEN [err |-> "KeyError", value |-> <<>>]
        ELSE [err |-> "none",
              value |-> Take(SortedMovies({dm[doc_id] : doc_id \in matching_doc_ids}),
                             MaxResults)]

\* get_documents taking the last token instead of the first.
get_documents_last_term(idx, term) ==
    LET tokens == tokenize(term)
    IN  IF tokens = <<>> THEN <<>>
        ELSE SortedIds(Postings(idx, tokens[Len(tokens)]))

\* InvertedIndex.get_documents
get_documents(idx, term) ==
    LET tokens == tokenize(term)
    IN  IF tokens = <<>> THEN <<>> ELSE SortedIds(Postings(idx, tokens[1]))

\* --------------------------------------------------------------- storage

\* The keys of a dict, in the order pickle writes them.
RECURSIVE KeySeq(_)
KeySeq(S) ==
    IF S = {} THEN <<>>
    ELSE LET k == CHOOSE x \in S : TRUE IN <<k>> \o KeySeq(S \ {k})

\* pickle.dump of a dict: its items, one after the other.
pickle_dump(obj) ==
    LET keys == KeySeq(DOMAIN obj)
    IN  [i \in DOMAIN keys |-> <<keys[i], obj[keys[i]]>>]

\* pickle_load losing the last item written.
pickle_load_dropping_last(bytes) ==
    [k \in {bytes[i][1] : i \in 1..(Len(bytes) - 1)} |->
        bytes[CHOOSE i \in DOMAIN bytes : bytes[i][1] = k][2]]

\* pickle.load of what pickle_dump wrote: the dict of the items.
pickle_load(bytes) ==
    [k \in {bytes[i][1] : i \in DOMAIN bytes} |->
        bytes[CHOOSE i \in DOMAIN bytes : bytes[i][1] = k][2]]

\* A file of cache/: absent, empty (opened "wb", nothing written yet) or
\* holding the bytes of one pickle.
NoFile == [st |-> "absent", bytes |-> <<>>]
EmptyFile == [st |-> "empty", bytes |-> <<>>]
DataFile(bytes) == [st |-> "data", bytes |-> bytes]

\* The exception open(..., "rb") followed by pickle.load raises on a file.
ReadError(file) ==
    CASE file.st = "absent" -> "FileNotFoundError"
      [] file.st = "empty" -> "EOFError"
      [] OTHER -> "none"

\* ----------------------------------------------------------------- state

\* "w": the process of the build command; "r": the process of the search
\* command.  Each owns one InvertedIndex; cache/ is shared.
Procs == {"w", "r"}

VARIABLES
    index,      \* index[p]: self.index of p's InvertedIndex
    docmap,     \* docmap[p]: self.docmap of p's InvertedIndex
    indexFile,  \* cache/index.pkl
    docmapFile, \* cache/docmap.pkl
    pc,         \* pc[p]: where p stands inside save() or load()
    call,       \* call[p]: p's current or last call of build, save or
                \* load: the method, its argument (build), the exception
                \* it raised, and the mappings of the instance when the
                \* call began
    nBuilds,    \* number of build() calls so far
    saved,      \* history: the (index, docmap) pairs save() was called on
    persisted,  \* history: the pair of the latest save() call
    synced      \* history: synced[p] iff p's current or last load() began
                \* with no save() running and no save() has run since

vars == <<index, docmap, indexFile, docmapFile, pc, call, nBuilds,
          saved, persisted, synced>>

EmptyDict == [k \in {} |-> {}]

Pair(p) == [index |-> index[p], docmap |-> docmap[p]]

Call(op, arg, err, before) ==
    [op |-> op, arg |-> arg, err |-> err, before |-> before]

\* InvertedIndex.__init__ in both processes; cache/ does not exist.
Init ==
    /\ index = [p \in Procs |-> EmptyDict]
    /\ docmap = [p \in Procs |-> EmptyDict]
    /\ indexFile = NoFile
    /\ docmapFile = NoFile
    /\ pc = [p \in Procs |-> "idle"]
    /\ call = [p \in Procs |->
                  Call("init", <<>>, "none",
                       [index |-> EmptyDict, docmap |-> EmptyDict])]
    /\ nBuilds = 0
    /\ saved = {}
    /\ persisted = [index |-> EmptyDict, docmap |-> EmptyDict]
    /\ synced = [p \in Procs |-> FALSE]

\* build(movies), in the build process.
Build(p, movies) ==
    /\ p = "w"
    /\ pc[p] = "idle"
    /\ nBuilds < MaxBuilds
    /\ LET out == BuildFrom(index[p], docmap[p], movies, 1)
       IN  /\ index' = [index EXCEPT ![p] = out.index]
           /\ docmap' = [docmap EXCEPT ![p] = out.docmap]
           /\ call' = [call EXCEPT ![p] = Call("build", movies, out.err, Pair(p))]
    /\ nBuilds' = nBuilds + 1
    /\ UNCHANGED <<indexFile, docmapFile, pc, saved, persisted, synced>>

\* save(): os.makedirs, then open("cache/index.pkl", "wb") creates or
\* truncates the file.
SaveOpenIndex(p) ==
    /\ p = "w"
    /\ pc[p] = "idle"
    /\ indexFile' = EmptyFile
    /\ pc' = [pc EXCEPT ![p] = "save_index_open"]
    /\ call' = [call EXCEPT ![p] = Call("save", <<>>, "running", Pair(p))]
    /\ saved' = saved \cup {Pair(p)}
    /\ persisted' = Pair(p)
    /\ synced' = [q \in Procs |-> FALSE]
    /\ UNCHANGED <<index, docmap, docmapFile, nBuilds>>

\* save(): pickle.dump(self.index, f) and the close of the with block.
SaveDumpIndex(p) ==
    /\ pc[p] = "save_index_open"
    /\ indexFile' = DataFile(pickle_dump(index[p]))
    /\ pc' = [pc EXCEPT ![p] = "save_index_done"]
    /\ UNCHANGED <<index, docmap, docmapFile, call, nBuilds, saved,
                   persisted, synced>>

\* save(): open("cache/docmap.pkl", "wb") creates or truncates the file.
SaveOpenDocmap(p) ==
    /\ pc[p] = "save_index_done"
    /\ docmapFile' = EmptyFile
    /\ pc' = [pc EXCEPT ![p] = "save_docmap_open"]
    /\ UNCHANGED <<index, docmap, indexFile, call, nBuilds, saved,
                   persisted, synced>>

\* save(): pickle.dump(self.docmap, f), the close, and the return.
SaveDumpDocmap(p) ==
    /\ pc[p] = "save_docmap_open"
    /\ docmapFile' = DataFile(pickle_dump(docmap[p]))
    /\ pc' = [pc EXCEPT ![p] = "idle"]
    /\ call' = [call EXCEPT ![p].err = "none"]
    /\ UNCHANGED <<index, docmap, indexFile, nBuilds, saved, persisted,
                   synced>>

\* load(): the first with block; an exception leaves load() at once.
LoadIndex(p) ==
    /\ pc[p] = "idle"
    /\ IF ReadError(indexFile) # "none"
       THEN /\ call' = [call EXCEPT ![p] =
                           Call("load", <<>>, ReadError(indexFile), Pair(p))]
            /\ UNCHANGED <<index, pc>>
       ELSE /\ index' = [index EXCEPT ![p] = pickle_load(indexFile.bytes)]
            /\ pc' = [pc EXCEPT ![p] = "load_index_done"]
            /\ call' = [call EXCEPT ![p] = Call("load", <<>>, "running", Pair(p))]
    /\ synced' = [synced EXCEPT ![p] = \A q \in Procs : pc[q] \in {"idle", "load_index_done"}]
    /\ UNCHANGED <<docmap, indexFile, docmapFile, nBuilds, saved, persisted>>

\* The second with block of load() not assigning what it read.
LoadDocmapKeepsOld(p) ==
    /\ pc[p] = "load_index_done"
    /\ call' = [call EXCEPT ![p].err = ReadError(docmapFile)]
    /\ pc' = [pc EXCEPT ![p] = "idle"]
    /\ UNCHANGED <<index, docmap, indexFile, docmapFile, nBuilds, saved,
                   persisted, synced>>

\* load(): the second with block, and the return.
LoadDocmap(p) ==
    /\ pc[p] = "load_index_done"
    /\ IF ReadError(docmapFile) # "none"
       THEN /\ call' = [call EXCEPT ![p].err = ReadError(docmapFile)]
            /\ UNCHANGED docmap
       ELSE /\ docmap' = [docmap EXCEPT ![p] = pickle_load(docmapFile.bytes)]
            /\ call' = [call EXCEPT ![p].err = "none"]
    /\ pc' = [pc EXCEPT ![p] = "idle"]
    /\ UNCHANGED <<index, indexFile, docmapFile, nBuilds, saved, persisted,
                   synced>>

\* self.index after lookups that insert the default (self.index[token] on a
\* defaultdict(set), or setdefault).
after_get_inserting(idx, tokens) ==
    [t \in DOMAIN idx \cup {tokens[i] : i \in DOMAIN tokens} |->
        IF t \in DOMAIN idx THEN idx[t] ELSE {}]

\* self.index after the self.index.get(token, set()) calls of search and
\* get_documents: dict.get inserts nothing.
after_get(idx, tokens) == idx

\* search(query): reads self.index with dict.get, and self.docmap; what it
\* returns or raises goes to the caller.
Search(p, query) ==
    /\ pc[p] = "idle"
    /\ index' = [index EXCEPT ![p] = after_get(index[p], tokenize(query))]
    /\ UNCHANGED <<docmap, indexFile, docmapFile, pc, call, nBuilds, saved,
                   persisted, synced>>

\* get_documents(term): reads self.index with dict.get.
GetDocuments(p, term) ==
    /\ pc[p] = "idle"
    /\ index' = [index EXCEPT ![p] = after_get(index[p], tokenize(term))]
    /\ UNCHANGED <<docmap, indexFile, docmapFile, pc, call, nBuilds, saved,
                   persisted, synced>>

Next ==
    \E p \in Procs :
        \/ \E movies \in Corpora : Build(p, movies)
        \/ SaveOpenIndex(p)
        \/ SaveDumpIndex(p)
        \/ SaveOpenDocmap(p)
        \/ SaveDumpDocmap(p)
        \/ LoadIndex(p)
        \/ LoadDocmap(p)
        \/ \E query \in SampleQueries : Search(p, query)
        \/ \E term \in SampleQueries : GetDocuments(p, term)

Spec == Init /\ [][Next]_vars

\* ---------------------------------------------------------------- claims

Idle(p) == pc[p] = "idle"

\* The union of the posting sets of the terms of a query.
UnionOfPostings(idx, terms) ==
    UNION {IF terms[i] \in DOMAIN idx THEN idx[terms[i]] ELSE {} :
           i \in DOMAIN terms}

\* The k smallest members of a set of integers (all of them if fewer).
Smallest(S, k) == {x \in S : Cardinality({y \in S : y < x}) < k}

\* C1: for every index state and every query whose tokenization is not
\* empty, search returns, without an exception, exactly the documents whose
\* identifiers are the min(5, n) smallest members of the union of the
\* posting sets of the query terms, in ascending identifier order.
C1_SearchReturnsSmallestOfUnion ==
    \A p \in Procs : Idle(p) =>
        \A q \in Queries :
            LET terms == tokenize(q)
                want == Smallest(UnionOfPostings(index[p], terms), 5)
                got == search(index[p], docmap[p], q)
            IN  terms # <<>> =>
                    /\ got.err = "none"
                    /\ Len(got.value) = Cardinality(want)
                    /\ {got.value[i].id : i \in DOMAIN got.value} = want
                    /\ \A i, j \in DOMAIN got.value :
                           i < j => got.value[i].id < got.value[j].id
                    /\ \A i \in DOMAIN got.value :
                           got.value[i] = docmap[p][got.value[i].id]

\* C2: a load() that began after the latest save() had returned, and ended
\* without an exception, leaves an instance whose search results are, for
\* every query (one query for each sequence of terms), those of the instance
\* save() was called on.
C2_RoundTrip ==
    \A p \in Procs :
        (call[p].op = "load" /\ call[p].err = "none" /\ synced[p]) =>
            \A q \in SampleQueries :
                search(index[p], docmap[p], q)
                    = search(persisted.index, persisted.docmap, q)

\* C2's case: the search process has loaded what the build process built
\* and saved, and a query finds documents in it.
C2_Witness ==
    /\ call["r"].op = "load" /\ call["r"].err = "none" /\ synced["r"]
    /\ Idle("r")
    /\ call["w"].op = "save" /\ call["w"].before.index # EmptyDict
    /\ search(index["r"], docmap["r"], <<"a", " ", "s">>).value # <<>>

\* The words of a text as written: its maximal runs of non-blank characters.
WordsOf(text) == {split_into_words(text)[i] : i \in DOMAIN split_into_words(text)}

\* The words of the title and of the description of a record.
WordsOfMovie(m) == WordsOf(m.title) \cup WordsOf(m.description)

BuiltWithoutError(p) == call[p].op = "build" /\ call[p].err = "none"

\* C3, as stated: after build(corpus), for every document of the corpus and
\* every word w of its title or description, the union search(w) computes
\* before truncation holds the document's identifier.
C3_SymmetryEveryWord ==
    \A p \in Procs : BuiltWithoutError(p) =>
        \A i \in DOMAIN call[p].arg :
            \A w \in WordsOfMovie(call[p].arg[i]) :
                call[p].arg[i].id \in MatchingDocIds(index[p], tokenize(w), 1)

\* C3, amended: the same for every word w that tokenizes to a term, that
\* is, a word that is not a stopword once normalized and does not consist
\* of punctuation only.
C3_SymmetryIndexedWord ==
    \A p \in Procs : BuiltWithoutError(p) =>
        \A i \in DOMAIN call[p].arg :
            \A w \in WordsOfMovie(call[p].arg[i]) :
                tokenize(w) # <<>> =>
                    call[p].arg[i].id \in MatchingDocIds(index[p], tokenize(w), 1)

\* C3's case: the three-movie corpus is built; the words A and sas of
\* movie 1 are indexed as a and sa, and the queries A and sas find movie 1.
C3_Witness ==
    /\ BuiltWithoutError("w")
    /\ call["w"].arg = <<M1, M2, M3>>
    /\ <<"s", "a", "s">> \in WordsOfMovie(M1)
    /\ <<"s", "a", "s">> \notin DOMAIN index["w"]
    /\ 1 \in MatchingDocIds(index["w"], tokenize(<<"s", "a", "s">>), 1)
    /\ 1 \in MatchingDocIds(index["w"], tokenize(<<"A">>), 1)

\* A query in lower case with a blank in the place of every punctuation
\* character ("Lion-King" becomes "lion king").
SpacedOut(q) ==
    [i \in DOMAIN q |-> IF q[i] = "-" THEN " " ELSE IF q[i] = "A" THEN "a" ELSE q[i]]

\* C4, as stated: a query and the query with its capitals lowered and its
\* punctuation characters turned into blanks give the same search result.
C4_PunctuationSeparatesWords ==
    \A p \in Procs : Idle(p) =>
        \A q \in Queries :
            search(index[p], docmap[p], q)
                = search(index[p], docmap[p], SpacedOut(q))

\* The queries that differ from q in the case of one letter, or by one
\* punctuation character more.
OtherCase(c) == IF c = "a" THEN {"A"} ELSE IF c = "A" THEN {"a"} ELSE {}

CaseVariants(q) ==
    {[q EXCEPT ![x[1]] = x[2]] :
        x \in {y \in (DOMAIN q) \X Chars : y[2] \in OtherCase(q[y[1]])}}

PunctVariants(q) ==
    {SubSeq(q, 1, i) \o <<"-">> \o SubSeq(q, i + 1, Len(q)) : i \in 0..Len(q)}

Variants(q) == CaseVariants(q) \cup PunctVariants(q)

\* Every query tokenizes to the terms each of its variants tokenizes to.
VariantsHaveSameTerms ==
    \A q \in Queries : \A v \in Variants(q) : tokenize(q) = tokenize(v)

\* C4, amended: two queries that differ only in the case of a letter, or
\* by a punctuation character (which is deleted, wherever it stands, and
\* separates nothing), tokenize to the same terms, and give the same search
\* result (compared for one query of each sequence of terms and all its
\* variants).
C4_CaseAndDeletedPunctuation ==
    /\ VariantsHaveSameTerms
    /\ \A p \in Procs : Idle(p) =>
           \A q \in SampleQueries : \A v \in Variants(q) :
               search(index[p], docmap[p], q) = search(index[p], docmap[p], v)

\* C4's case: search can run on an index in which the query A-s (the
\* stopword as, once normalized) finds nothing and the query a s finds
\* documents, while A- and a give the same documents.
C4_Witness ==
    /\ Idle("w")
    /\ <<"A", "-", "s">> \in Variants(<<"A", "s">>)
    /\ search(index["w"], docmap["w"], <<"a", " ", "s">>).value # <<>>
    /\ search(index["w"], docmap["w"], <<"A", "-", "s">>).value = <<>>
    /\ search(index["w"], docmap["w"], <<"A", "-">>).value # <<>>
    /\ search(index["w"], docmap["w"], <<"A", "-">>)
           = search(index["w"], docmap["w"], <<"a">>)

FailedLoad(p) == call[p].op = "load" /\ call[p].err \notin {"none", "running"}

\* C5: a load() that failed has replaced neither mapping: self.index and
\* self.docmap are what they were when load() was called.
C5_FailedLoadReplacesNothing ==
    \A p \in Procs : FailedLoad(p) =>
        /\ index[p] = call[p].before.index
        /\ docmap[p] = call[p].before.docmap

\* C6: a build() that failed has left no entry behind: self.index and
\* self.docmap are what they were when build() was called.
C6_FailedBuildLeavesNothing ==
    \A p \in Procs : (call[p].op = "build" /\ call[p].err # "none") =>
        /\ index[p] = call[p].before.index
        /\ docmap[p] = call[p].before.docmap

\* C7: get_documents returns the posting set of the first term of its
\* argument as a strictly ascending list; the empty list if the argument
\* has no term or the term is not in the index (for one argument of each
\* sequence of terms).
C7_LookupFirstTermAscending ==
    \A p \in Procs : Idle(p) =>
        \A t \in SampleQueries :
            LET terms == tokenize(t)
                got == get_documents(index[p], t)
            IN  /\ terms = <<>> => got = <<>>
                /\ terms # <<>> =>
                       /\ {got[i] : i \in DOMAIN got}
                              = (IF terms[1] \in DOMAIN index[p]
                                 THEN index[p][terms[1]] ELSE {})
                       /\ \A i, j \in DOMAIN got : i < j => got[i] < got[j]
                       /\ terms[1] \notin DOMAIN index[p] => got = <<>>

\* C7's case: get_documents can run on the index of the eight-record
\* corpus: "s a" and "a s" give the posting sets of their first terms, s and
\* a; sss is in no document; as is a stopword.
C7_Witness ==
    /\ Idle("w")
    /\ BuiltWithoutError("w") /\ Len(call["w"].arg) = 8
    /\ get_documents(index["w"], <<"s", " ", "a">>) = <<1, 2, 4, 5>>
    /\ get_documents(index["w"], <<"a", " ", "s">>) = <<1, 3, 4, 6, 7>>
    /\ get_documents(index["w"], <<"s", "s", "s">>) = <<>>
    /\ get_documents(index["w"], <<"a", "s">>) = <<>>

\* Two stopwords, separated by a blank.
StopwordPhrases == {u \o <<" ">> \o v : u, v \in Stopwords}

\* The queries that consist of configured stopwords and blanks only.
StopwordQueries ==
    {q \in Queries \cup StopwordPhrases : WordsOf(q) \subseteq Stopwords}

\* C9: a query made of stopwords only, or with no word at all, tokenizes to
\* the empty sequence, and search returns the empty list without an
\* exception, whatever the index holds.
C9_StopwordQueriesFindNothing ==
    \A q \in StopwordQueries :
        /\ tokenize(q) = <<>>
        /\ \A p \in Procs : Idle(p) =>
               search(index[p], docmap[p], q) = [err |-> "none", value |-> <<>>]

\* C9's case: search can run on an index that holds the term aa (the stem
\* of aas), which is also a stopword: the query aa returns nothing.
C9_Witness ==
    /\ Idle("w")
    /\ <<"a", "a">> \in Stopwords
    /\ <<"a", "a">> \in DOMAIN index["w"]
    /\ <<"a", "a">> \in StopwordQueries
    /\ search(index["w"], docmap["w"], <<"a", "a">>).value = <<>>

\* C10: every key of the term-to-posting-set mapping maps to a non-empty
\* set, in every state.
C10_NoEmptyPostingSet ==
    \A p \in Procs : \A t \in DOMAIN index[p] : index[p][t] # {}

\* C10's case: search and get_documents can run on an index that holds
\* terms, with a query whose terms the index does not hold, and the lookup
\* leaves the index as it is; the index of the search process came from
\* load().
C10_Witness ==
    /\ Idle("w") /\ Idle("r")
    /\ call["r"].op = "load" /\ call["r"].err = "none"
    /\ index["w"] # EmptyDict /\ index["r"] # EmptyDict
    /\ \E q \in SampleQueries :
           /\ \E i \in DOMAIN tokenize(q) :
                  tokenize(q)[i] \notin DOMAIN index["r"]
           /\ after_get(index["r"], tokenize(q)) = index["r"]

\* C8, as stated: the pair a load() obtained without an exception is a pair
\* save() was called on: the stored pair before a save() or the pair after.
C8_LoadObtainsASavedPair ==
    \A p \in Procs :
        (call[p].op = "load" /\ call[p].err = "none") =>
            [index |-> index[p], docmap |-> docmap[p]] \in saved

\* C8, amended: the pair a load() obtained without an exception, when no
\* save() ran at any time during that load(), is the pair the latest save()
\* was called on.
C8_QuietLoadObtainsLatestPair ==
    \A p \in Procs :
        (call[p].op = "load" /\ call[p].err = "none" /\ synced[p]) =>
            [index |-> index[p], docmap |-> docmap[p]] = persisted

\* C8's case: the build process has saved twice, an empty index and then a
\* built one, and the search process has loaded the second pair after the
\* second save() returned.
C8_Witness ==
    /\ call["r"].op = "load" /\ call["r"].err = "none" /\ synced["r"]
    /\ Cardinality(saved) = 2
    /\ index["r"] # EmptyDict /\ docmap["r"] # EmptyDict

\* C11: between calls, every identifier in a posting set of the instance is
\* a key of its document map, after any sequence of build, save and load
\* calls, those that failed partway included; so that no search raises
\* KeyError at self.docmap[doc_id].
C11_ReferentialIntegrity ==
    \A p \in Procs : Idle(p) =>
        /\ \A t \in DOMAIN index[p] : index[p][t] \subseteq DOMAIN docmap[p]
        /\ \A q \in SampleQueries :
               search(index[p], docmap[p], q).err = "none"

====
